---- MODULE Spec2Model ----
(***************************************************************************)
(* The msgpack-RPC client of pynvim_pp (src/pynvim_pp/rpc.py) as a state   *)
(* machine: the handshake coroutine client(), the callers of               *)
(* _RPClient.request / notify / register, the send loop, the receive loop  *)
(* with its frame dispatch, the handler tasks, and the peer at the other   *)
(* end of the stream.                                                      *)
(*                                                                         *)
(* Scheduling is asyncio's: one coroutine runs at a time and gives way     *)
(* only at an await that suspends.  The receive loop's body has no await,  *)
(* so every frame unpacked from one read is dispatched before any other    *)
(* coroutine runs: the guard Idle on the other coroutines' actions.        *)
(***************************************************************************)
EXTENDS Integers, Sequences, FiniteSets, TLC

\* ------------------------------------------------------------- bounds

\* Requests the client issues, the handshake's nvim_get_api_info included.
MaxUid == 3
\* Frames the peer writes to the stream.
MaxIn == 3
\* Notifications the callers issue after the handshake.
MaxNotify == 1

\* ------------------------------------------------------------- values

\* Decoded msgpack values, tagged by their Python type.
VNil == [k |-> "nil"]
VInt(n) == [k |-> "int", v |-> n]
VStr(s) == [k |-> "str", v |-> s]
VList(s) == [k |-> "list", v |-> s]
VMap(f) == [k |-> "map", v |-> f]

\* A msgpack ext value as it is on the wire, and the Ext instance of class
\* cls that ext_hook makes of it.
VExt(code, data) == [k |-> "ext", code |-> code, data |-> data]
ExtObj(cls, data) == [k |-> "Ext", cls |-> cls, data |-> data]

\* Python's bool(x), as `if err:` and `if fut :=` take it.
Truthy(x) ==
    CASE x.k = "nil" -> FALSE
      [] x.k = "int" -> x.v # 0
      [] x.k = "str" -> x.v # ""
      [] x.k = "list" -> x.v # <<>>
      [] x.k = "map" -> DOMAIN x.v # {}
      [] OTHER -> TRUE

\* _MsgType
MsgType_req == 0
MsgType_resp == 1
MsgType_notif == 2

\* ------------------------------------------------------------- frames

\* A decoded top-level msgpack object.  `seq` is isinstance(frame, Sequence),
\* `arity` is len(frame); the named fields are the positions the receive loop
\* unpacks: (ty, method, params) of a 3-sequence, (ty, msg_id, op1, op2) of a
\* 4-sequence.
Frame3(ty, method, params) ==
    [seq |-> TRUE, arity |-> 3, ty |-> ty, method |-> method, params |-> params]
Frame4(ty, msg_id, op1, op2) ==
    [seq |-> TRUE, arity |-> 4, ty |-> ty, msg_id |-> msg_id, op1 |-> op1, op2 |-> op2]

\* A sequence of n elements, n other than 3 and 4, and a top-level object
\* that is no sequence (nil, a number, a map).
FrameN(n) == [seq |-> TRUE, arity |-> n]
NonSeq == [seq |-> FALSE, arity |-> 0]

\* The tuples _RPClient puts on the outbound queue.
NotifFrame(method, params) == Frame3(MsgType_notif, VStr(method), params)
ReqFrame(uid, method, params) == Frame4(MsgType_req, VInt(uid), VStr(method), params)
RespFrame(msg_id, error, result) == Frame4(MsgType_resp, msg_id, error, result)

\* ------------------------------------------------------------- futures

\* asyncio.Future: _state, and the result or the exception it holds.
NewFuture == [st |-> "PENDING", exc |-> "none", val |-> VNil]
IsDone(fut) == fut.st # "PENDING"

\* NvimError(err) handed to fut.set_exception; res handed to fut.set_result.
SetException(fut, err) == [st |-> "FINISHED", exc |-> "NvimError", val |-> err]
SetResult(fut, res) == [st |-> "FINISHED", exc |-> "none", val |-> res]

\* The response branch's choice between the two: `if err:`.
Settle(fut, err, res) ==
    IF Truthy(err) THEN SetException(fut, err) ELSE SetResult(fut, res)

\* `return await fut`: what the coroutine suspended in request() is resumed
\* with, "waiting" while it stays suspended.
Waiting == [kind |-> "waiting", val |-> VNil]
Outcome(fut) ==
    CASE fut.st = "CANCELLED" -> [kind |-> "CancelledError", val |-> VNil]
      [] fut.st = "FINISHED" /\ fut.exc = "none" -> [kind |-> "result", val |-> fut.val]
      [] fut.st = "FINISHED" /\ fut.exc # "none" -> [kind |-> fut.exc, val |-> fut.val]
      [] OTHER -> Waiting

VARIABLES
    hs,           \* client(): where the handshake coroutine stands
    chan,         \* _RPClient._chan
    chanRead,     \* how the latest read of the property _RPClient.chan ended
    codes,        \* Ext.code of Buffer, Window, Tabpage (class attributes)
    mapping,      \* _Hooker._mapping
    uids,         \* the next value of _RPClient._uids
    rx_q,         \* rx_q: uid -> Future
    callers,      \* uid -> the coroutine that called request(): "suspended" in
                  \* `await fut`, "cancelling" once its task was cancelled,
                  \* "resumed" with the future's outcome, or "CancelledError"
    tx_q,         \* tx_q: the outbound asyncio.Queue
    enqueued,     \* every frame ever put on tx_q, in order
    opened,       \* how `await open_unix_connection(socket)` ended, "pending" before
    sendState,    \* send(): "running", or the exception that ended it
    wire,         \* the frames handed to writer.write, in order
    draining,     \* send() is suspended in writer.drain() on a transport that is closing
    transport,    \* "open", "reset" (the peer closed on unread data: the
                  \* socket's next error is ECONNRESET), or the exception
                  \* the transport was lost with, set on the reader
    stream,       \* frames the peer has written and reader.read has not returned
    peerClosed,   \* the peer has closed its end
    nIn,          \* frames the peer has written so far
    unpacker,     \* frames fed to the Unpacker and not yet yielded
    rxState,      \* rx(): "running", "returned", or the exception that ended it
    methods,      \* methods: method name -> handler
    lastRegister, \* how the latest register() call ended
    tasks,        \* the tasks create_task(cb(...)) has started, in order
    warned,       \* the messages log.warn was called with
    nNotify       \* notifications the callers have issued

vars == <<hs, chan, chanRead, codes, mapping, uids, rx_q, callers, tx_q, enqueued, opened,
          sendState, wire, draining, transport, stream, peerClosed, nIn, unpacker, rxState, methods, lastRegister,
          tasks, warned, nNotify>>

hsVars == <<hs, chan, chanRead, codes, mapping>>
callVars == <<uids, rx_q, callers>>
sendVars == <<opened, sendState, wire, draining, transport>>
peerVars == <<stream, peerClosed, nIn>>
recvVars == <<unpacker, rxState>>
dispVars == <<methods, lastRegister, tasks, warned>>

\* ------------------------------------------------------------- handshake

Kinds == <<"Buffer", "Window", "Tabpage">>

\* The params of the nvim_set_client_info notification.
ClientInfoParams ==
    VList(<<VStr("PARENT.name"),
            VMap([major |-> VStr("version_info.major"),
                  minor |-> VStr("version_info.minor"),
                  patch |-> VStr("version_info.micro")]),
            VStr("remote"), VList(<<>>), VMap(<<>>)>>)

\* `chan, meta = result` and the three assertions on meta: whether they pass.
ApiInfoOk(result) ==
    /\ result.k = "list"
    /\ Len(result.v) = 2
    /\ result.v[2].k = "map"
    /\ "types" \in DOMAIN result.v[2].v
    /\ result.v[2].v["types"].k = "map"
    /\ "error_types" \in DOMAIN result.v[2].v
    /\ result.v[2].v["error_types"].k = "map"

\* types[name]["id"] followed by init_code's isinstance(code, int).
TypeCodeOk(types, name) ==
    /\ name \in DOMAIN types.v
    /\ types.v[name].k = "map"
    /\ "id" \in DOMAIN types.v[name].v
    /\ types.v[name].v["id"].k = "int"

\* The three init_code calls in turn: the class attributes after them, the
\* first failure ending the sequence.
RECURSIVE InitCodes(_, _, _)
InitCodes(types, cs, i) ==
    IF i > Len(Kinds) THEN [ok |-> TRUE, codes |-> cs]
    ELSE IF ~TypeCodeOk(types, Kinds[i]) THEN [ok |-> FALSE, codes |-> cs]
    ELSE InitCodes(types, [cs EXCEPT ![Kinds[i]] = types.v[Kinds[i]].v["id"]], i + 1)

\* _Hooker.init: {cls.code: cls for cls in exts}, a later class replacing an
\* earlier one of the same code.
HookerInit(cs) ==
    [c \in {cs[Kinds[i]].v : i \in 1..Len(Kinds)} |->
        Kinds[CHOOSE i \in 1..Len(Kinds) :
                /\ cs[Kinds[i]].v = c
                /\ \A j \in 1..Len(Kinds) : cs[Kinds[j]].v = c => j <= i]]

\* ------------------------------------------------------------- scheduling

\* The connection task runs once client() has suspended in its first await
\* that waits: the `await fut` of the nvim_get_api_info request.
Scheduled == hs \notin {"Connecting", "HandshakeClientInfo"}

\* The two loops run once open_unix_connection has returned the streams.
Started == Scheduled /\ opened = "open"

\* The exceptions a lost transport leaves on the reader.
TransportErrors == {"ConnectionResetError", "BrokenPipeError"}

\* No frame of the current read is left to dispatch: the receive loop is
\* suspended in reader.read (or has ended) and another coroutine may run.
Idle == unpacker = <<>> \/ rxState # "running"

\* tx_q.put(frame): the queue is unbounded, the put never waits.
Put(frame) ==
    /\ tx_q' = Append(tx_q, frame)
    /\ enqueued' = Append(enqueued, frame)

\* `return await fut` resumes: with the future's outcome, or with the
\* CancelledError that Task.cancel() has left for the coroutine.
Resumed(caller) == IF caller = "cancelling" THEN "CancelledError" ELSE "resumed"

\* A request() that takes the id of a settled call when there is one.
RequestCall_Reuse(method, params) ==
    LET done == {u \in DOMAIN rx_q : IsDone(rx_q[u])}
        uid == IF done = {} THEN uids ELSE CHOOSE u \in done : TRUE
    IN /\ uids' = uids + 1
       /\ rx_q' = [u \in DOMAIN rx_q \cup {uid} |->
                      IF u = uid THEN NewFuture ELSE rx_q[u]]
       /\ callers' = [u \in DOMAIN rx_q \cup {uid} |->
                         IF u = uid THEN "suspended" ELSE callers[u]]
       /\ Put(ReqFrame(uid, method, params))

\* _RPClient.request up to its `await fut`.
RequestCall(method, params) ==
    /\ uids' = uids + 1
    /\ rx_q' = rx_q @@ (uids :> NewFuture)
    /\ callers' = callers @@ (uids :> "suspended")
    /\ Put(ReqFrame(uids, method, params))

Init ==
    /\ hs = "Connecting"
    /\ chan = VNil
    /\ chanRead = [kind |-> "none", val |-> VNil]
    /\ codes = [n \in {Kinds[i] : i \in 1..Len(Kinds)} |-> VNil]
    /\ mapping = <<>>
    /\ uids = 0
    /\ rx_q = <<>>
    /\ callers = <<>>
    /\ tx_q = <<>>
    /\ enqueued = <<>>
    /\ opened = "pending"
    /\ sendState = "running"
    /\ wire = <<>>
    /\ draining = FALSE
    /\ transport = "open"
    /\ stream = <<>>
    /\ peerClosed = FALSE
    /\ nIn = 0
    /\ unpacker = <<>>
    /\ rxState = "running"
    /\ methods = <<>>
    /\ lastRegister = "none"
    /\ tasks = <<>>
    /\ warned = {}
    /\ nNotify = 0

\* client(): rpc.notify("nvim_set_client_info", ...).
NotifyClientInfo ==
    /\ hs = "Connecting"
    /\ hs' = "HandshakeClientInfo"
    /\ Put(NotifFrame("nvim_set_client_info", ClientInfoParams))
    /\ UNCHANGED <<chan, chanRead, codes, mapping, callVars, sendVars, peerVars,
                   recvVars, dispVars, nNotify>>

\* client(): rpc.request("nvim_get_api_info") up to its await.
RequestApiInfo ==
    /\ hs = "HandshakeClientInfo"
    /\ hs' = "HandshakeCapabilities"
    /\ RequestCall("nvim_get_api_info", VList(<<>>))
    /\ UNCHANGED <<chan, chanRead, codes, mapping, sendVars, peerVars, recvVars,
                   dispVars, nNotify>>

\* A client() that hands the client out without hooker.init: the decoding
\* table stays empty.
HandshakeResume_NoHooker ==
    /\ hs = "HandshakeCapabilities"
    /\ Idle
    /\ IsDone(rx_q[0])
    /\ callers[0] \in {"suspended", "cancelling"}
    /\ callers' = [callers EXCEPT ![0] = Resumed(@)]
    /\ LET out == Outcome(rx_q[0])
           good == /\ callers[0] = "suspended"
                   /\ out.kind = "result"
                   /\ ApiInfoOk(out.val)
           ini == IF good THEN InitCodes(out.val.v[2].v["types"], codes, 1)
                  ELSE [ok |-> FALSE, codes |-> codes]
       IN /\ codes' = ini.codes
          /\ IF ini.ok
             THEN /\ chan' = out.val.v[1]
                  /\ hs' = "Ready"
                  /\ UNCHANGED mapping
             ELSE /\ hs' = "Failed"
                  /\ UNCHANGED <<chan, mapping>>
    /\ UNCHANGED <<chanRead, uids, rx_q, tx_q, enqueued, sendVars, peerVars,
                   recvVars, dispVars, nNotify>>

\* client() resumed from the request: the assertions, the init_code calls,
\* rpc._chan and hooker.init, then `yield rpc`.  An exception anywhere ends
\* client() with what has been assigned so far left in place.
HandshakeResume ==
    /\ hs = "HandshakeCapabilities"
    /\ Idle
    /\ IsDone(rx_q[0])
    /\ callers[0] \in {"suspended", "cancelling"}
    /\ callers' = [callers EXCEPT ![0] = Resumed(@)]
    /\ LET out == Outcome(rx_q[0])
           good == /\ callers[0] = "suspended"
                   /\ out.kind = "result"
                   /\ ApiInfoOk(out.val)
           ini == IF good THEN InitCodes(out.val.v[2].v["types"], codes, 1)
                  ELSE [ok |-> FALSE, codes |-> codes]
       IN /\ codes' = ini.codes
          /\ IF ini.ok
             THEN /\ chan' = out.val.v[1]
                  /\ mapping' = HookerInit(ini.codes)
                  /\ hs' = "Ready"
             ELSE /\ hs' = "Failed"
                  /\ UNCHANGED <<chan, mapping>>
    /\ UNCHANGED <<chanRead, uids, rx_q, tx_q, enqueued, sendVars, peerVars,
                   recvVars, dispVars, nNotify>>

\* The property _RPClient.chan: `assert self._chan`, then the value.
ChanGet(c) ==
    IF Truthy(c) THEN [kind |-> "value", val |-> c]
    ELSE [kind |-> "AssertionError", val |-> VNil]

\* A read of rpc.chan.
ReadChan ==
    /\ Idle
    /\ chanRead' = ChanGet(chan)
    /\ UNCHANGED <<hs, chan, codes, mapping, callVars, tx_q, enqueued, sendVars,
                   peerVars, recvVars, dispVars, nNotify>>

\* ------------------------------------------------------------- callers

\* The methods the embedding program calls, those it handles, its handlers.
CallMethods == {"nvim_command"}
MethodNames == {"ping", "pong"}
Handlers == {"f1", "f2"}
NoParams == VList(<<>>)

\* A coroutine of the embedding program calls rpc.request(method).
Request(method) ==
    /\ hs = "Ready"
    /\ Idle
    /\ uids < MaxUid
    /\ RequestCall(method, NoParams)
    /\ UNCHANGED <<hsVars, sendVars, peerVars, recvVars, dispVars, nNotify>>

\* A coroutine of the embedding program calls rpc.notify(method).
Notify(method) ==
    /\ hs = "Ready"
    /\ Idle
    /\ nNotify < MaxNotify
    /\ nNotify' = nNotify + 1
    /\ Put(NotifFrame(method, NoParams))
    /\ UNCHANGED <<hsVars, callVars, sendVars, peerVars, recvVars, dispVars>>

\* The task suspended in request() is cancelled: Task.cancel() cancels the
\* future it awaits, or leaves a future that is done as it is, and
\* CancelledError is thrown into the coroutine when it runs next.
Cancel(uid) ==
    /\ uid \in DOMAIN rx_q
    /\ Idle
    /\ callers[uid] = "suspended"
    /\ callers' = [callers EXCEPT ![uid] = "cancelling"]
    /\ rx_q' = IF rx_q[uid].st = "PENDING"
               THEN [rx_q EXCEPT ![uid] = [@ EXCEPT !.st = "CANCELLED"]]
               ELSE rx_q
    /\ UNCHANGED <<hsVars, uids, tx_q, enqueued, sendVars, peerVars, recvVars,
                   dispVars, nNotify>>

\* The coroutine of the embedding program suspended in request(uid) runs
\* on: `return await fut` returns or raises.
RequestResume(uid) ==
    /\ uid \in DOMAIN rx_q
    /\ uid # 0
    /\ \A i \in DOMAIN tasks : ~(tasks[i].st = "awaiting" /\ tasks[i].out = VInt(uid))
    /\ Idle
    /\ callers[uid] \in {"suspended", "cancelling"}
    /\ IsDone(rx_q[uid])
    /\ callers' = [callers EXCEPT ![uid] = Resumed(@)]
    /\ UNCHANGED <<hsVars, uids, rx_q, tx_q, enqueued, sendVars, peerVars, recvVars,
                   dispVars, nNotify>>

\* A register() without its assertion: the later handler replaces the first.
Registered_Overwrite(table, method, f) ==
    [x \in DOMAIN table \cup {method} |-> IF x = method THEN f ELSE table[x]]

\* The table after _RPClient.register(f), f.method = method: the assertion
\* leaves it as it was.
Registered(table, method, f) ==
    IF method \in DOMAIN table THEN table ELSE table @@ (method :> f)

\* _RPClient.register(f).
Register(method, f) ==
    /\ hs = "Ready"
    /\ Idle
    /\ methods' = Registered(methods, method, f)
    /\ lastRegister' = IF method \in DOMAIN methods THEN "AssertionError" ELSE "ok"
    /\ UNCHANGED <<hsVars, callVars, tx_q, enqueued, sendVars, peerVars, recvVars,
                   tasks, warned, nNotify>>

\* ------------------------------------------------------------- send loop

\* _connect: reader, writer = await open_unix_connection(socket) returns.
Connect ==
    /\ Scheduled
    /\ opened = "pending"
    /\ opened' = "open"
    /\ UNCHANGED <<hsVars, callVars, tx_q, enqueued, sendState, wire, draining,
                   transport, peerVars, recvVars, dispVars, nNotify>>

\* The exceptions open_unix_connection raises on a socket path that does
\* not exist and on one nobody listens on.
ConnectErrors == {"FileNotFoundError", "ConnectionRefusedError"}

\* _connect: await open_unix_connection(socket) raises and ends the
\* connection task before gather: neither loop ever runs.
ConnectFail(e) ==
    /\ Scheduled
    /\ opened = "pending"
    /\ opened' = e
    /\ UNCHANGED <<hsVars, callVars, tx_q, enqueued, sendState, wire, draining,
                   transport, peerVars, recvVars, dispVars, nNotify>>

\* What writer.write(data) does to the transport.  The socket takes the data
\* while the peer holds its end open, also when the peer has closed its
\* writing side only.  After the peer's close the send fails with EPIPE and
\* the transport is lost with BrokenPipeError; when the transport has met
\* a pending reset before the write, it is lost with ConnectionResetError
\* and the write is dropped.
Written ==
    (IF transport = "open" THEN {[transport |-> "open", lost |-> FALSE]} ELSE {})
    \cup (IF peerClosed THEN {[transport |-> "BrokenPipeError", lost |-> TRUE]} ELSE {})
    \cup (IF transport = "reset"
          THEN {[transport |-> "ConnectionResetError", lost |-> TRUE]}
          ELSE {})

\* A send loop that takes the newest frame of the queue first.
SendFrame_Lifo ==
    /\ Started
    /\ Idle
    /\ sendState = "running"
    /\ ~draining
    /\ tx_q # <<>>
    /\ transport \notin TransportErrors
    /\ wire' = Append(wire, tx_q[Len(tx_q)])
    /\ tx_q' = SubSeq(tx_q, 1, Len(tx_q) - 1)
    /\ \E w \in Written : transport' = w.transport /\ draining' = w.lost
    /\ UNCHANGED <<hsVars, callVars, enqueued, opened, sendState, peerVars, recvVars,
                   dispVars, nNotify>>

\* One turn of send() over tx(): frame = await tx_q.get(); writer.write(
\* packer.pack(frame)); then the None that tx() yields: await writer.drain(),
\* which returns at once on an open transport and suspends on one that the
\* failed write has begun to close.
SendFrame ==
    /\ Started
    /\ Idle
    /\ sendState = "running"
    /\ ~draining
    /\ tx_q # <<>>
    /\ transport \notin TransportErrors
    /\ wire' = Append(wire, Head(tx_q))
    /\ tx_q' = Tail(tx_q)
    /\ \E w \in Written : transport' = w.transport /\ draining' = w.lost
    /\ UNCHANGED <<hsVars, callVars, enqueued, opened, sendState, peerVars, recvVars,
                   dispVars, nNotify>>

\* writer.drain() raises and ends send().  Suspended after a failed write, it
\* resumes with ConnectionResetError('Connection lost'), whatever ran in
\* between.  The same turn with no other coroutine running in between is
\* one step: the write is lost and drain() raises.  On a transport already
\* lost the write is dropped and drain() raises the reader's exception.
SendFail ==
    /\ Started
    /\ Idle
    /\ sendState = "running"
    /\ \/ /\ draining
          /\ draining' = FALSE
          /\ sendState' = "ConnectionResetError"
          /\ UNCHANGED <<tx_q, wire, transport>>
       \/ /\ ~draining
          /\ tx_q # <<>>
          /\ wire' = Append(wire, Head(tx_q))
          /\ tx_q' = Tail(tx_q)
          /\ UNCHANGED draining
          /\ IF transport \in TransportErrors
             THEN sendState' = transport /\ UNCHANGED transport
             ELSE /\ sendState' = "ConnectionResetError"
                  /\ \E w \in Written : w.lost /\ transport' = w.transport
    /\ UNCHANGED <<hsVars, callVars, enqueued, opened, peerVars, recvVars, dispVars,
                   nNotify>>

\* ------------------------------------------------------------- receive loop

\* recv(): data = await reader.read(_LIMIT).  Data is fed to the unpacker; an
\* empty read (the peer's end of file) ends the generator and with it rx();
\* the read raises, and rx() ends with the exception, when the peer's close
\* reset the connection or a write has lost the transport: then the data
\* and the end of file that reached the reader first are still read.
RecvRead ==
    /\ Started
    /\ rxState = "running"
    /\ unpacker = <<>>
    /\ \/ /\ stream # <<>>
          /\ unpacker' = stream
          /\ stream' = <<>>
          /\ UNCHANGED <<rxState, transport>>
       \/ /\ stream = <<>>
          /\ peerClosed
          /\ transport # "reset"
          /\ rxState' = "returned"
          /\ UNCHANGED <<unpacker, stream, transport>>
       \/ /\ stream = <<>>
          /\ transport = "reset"
          /\ rxState' = "ConnectionResetError"
          /\ transport' = "ConnectionResetError"
          /\ UNCHANGED <<unpacker, stream>>
       \/ /\ transport \in TransportErrors
          /\ rxState' = transport
          /\ UNCHANGED <<unpacker, stream, transport>>
    /\ UNCHANGED <<hsVars, callVars, tx_q, enqueued, opened, sendState, wire,
                   draining, peerClosed, nIn, dispVars, nNotify>>

\* _Hooker.ext_hook(code, data): the Ext instances made, none when the code
\* has no class and RuntimeError is raised.
ExtHook_Buffer(table, code, data) == {ExtObj("Buffer", data)}

ExtHook(table, code, data) ==
    IF code \in DOMAIN table THEN {ExtObj(table[code], data)} ELSE {}

\* The ext codes within a value on the wire.
RECURSIVE ExtCodes(_)
ExtCodes(x) ==
    CASE x.k = "ext" -> {x.code}
      [] x.k = "list" -> UNION {ExtCodes(x.v[i]) : i \in DOMAIN x.v}
      [] x.k = "map" -> UNION {ExtCodes(x.v[key]) : key \in DOMAIN x.v}
      [] OTHER -> {}

\* The Unpacker's decoding of a value, ext_hook called on every ext value.
RECURSIVE Unpack(_, _)
Unpack(x, table) ==
    CASE x.k = "ext" -> CHOOSE obj \in ExtHook(table, x.code, x.data) : TRUE
      [] x.k = "list" -> VList([i \in DOMAIN x.v |-> Unpack(x.v[i], table)])
      [] x.k = "map" -> VMap([key \in DOMAIN x.v |-> Unpack(x.v[key], table)])
      [] OTHER -> x

\* The same for a top-level object: the ext codes within it, and its
\* decoding.
FrameExtCodes(raw) ==
    IF ~raw.seq THEN {}
    ELSE IF raw.arity = 3 THEN ExtCodes(raw.method) \cup ExtCodes(raw.params)
    ELSE IF raw.arity = 4
         THEN ExtCodes(raw.msg_id) \cup ExtCodes(raw.op1) \cup ExtCodes(raw.op2)
    ELSE {}

FrameUnpack(raw, table) ==
    IF ~raw.seq THEN raw
    ELSE IF raw.arity = 3
         THEN Frame3(raw.ty, Unpack(raw.method, table), Unpack(raw.params, table))
    ELSE IF raw.arity = 4
         THEN Frame4(raw.ty, Unpack(raw.msg_id, table), Unpack(raw.op1, table),
                     Unpack(raw.op2, table))
    ELSE raw

\* Whether dict.get(key) can hash its key.
Hashable(key) == key.k \notin {"list", "map"}

\* methods.get(method): the handlers found, none or one.
MethodsGet(table, method) ==
    IF method.k = "str" /\ method.v \in DOMAIN table THEN {table[method.v]} ELSE {}

\* A lookup that hands out the oldest pending future, whatever the id.
RxQGet_Oldest(q, msg_id) ==
    LET pending == {u \in DOMAIN q : q[u].st = "PENDING"} IN
    IF pending = {} THEN {} ELSE {CHOOSE u \in pending : \A w \in pending : u <= w}

\* rx_q.get(msg_id): the uids of the futures found, none or one.
RxQGet(q, msg_id) ==
    IF msg_id.k = "int" /\ msg_id.v \in DOMAIN q THEN {msg_id.v} ELSE {}

\* create_task(cb(msg_id, params)): wrapped() of the handler f, not yet run.
NewTask(f, msg_id, params) ==
    [f |-> f, msg_id |-> msg_id, params |-> params, st |-> "running", out |-> VNil]

\* The messages of the two log.warn calls.
NoListener(method) == [msg |-> "No RPC listener for", method |-> method]
Unexpected(err, res) == [msg |-> "Unexpected response message -", err |-> err, res |-> res]

\* An exception leaves rx(): the loop is over.
RxRaise(exc) ==
    /\ rxState' = exc
    /\ UNCHANGED <<rx_q, tasks, warned>>

\* The dispatch of a 3-sequence.
OnNotification(frame) ==
    IF frame.ty # MsgType_notif THEN RxRaise("AssertionError")
    ELSE IF ~Hashable(frame.method) THEN RxRaise("TypeError")
    ELSE LET cb == MethodsGet(methods, frame.method) IN
         /\ IF cb # {}
            THEN /\ tasks' = Append(tasks, NewTask(CHOOSE f \in cb : TRUE, VNil, frame.params))
                 /\ UNCHANGED warned
            ELSE /\ warned' = warned \cup {NoListener(frame.method)}
                 /\ UNCHANGED tasks
         /\ UNCHANGED <<rx_q, rxState>>

\* A dispatch that indexes rx_q[msg_id] and so raises on an unknown id.
OnResponse_KeyError(frame) ==
    LET fut == RxQGet(rx_q, frame.msg_id) IN
    IF fut = {} THEN RxRaise("KeyError")
    ELSE LET uid == CHOOSE u \in fut : TRUE IN
         IF IsDone(rx_q[uid]) THEN RxRaise("InvalidStateError")
         ELSE /\ rx_q' = [rx_q EXCEPT ![uid] = Settle(@, frame.op1, frame.op2)]
              /\ UNCHANGED <<tasks, warned, rxState>>

\* The dispatch of a 4-sequence tagged resp.
OnResponse(frame) ==
    IF ~Hashable(frame.msg_id) THEN RxRaise("TypeError")
    ELSE LET fut == RxQGet(rx_q, frame.msg_id) IN
         IF fut = {}
         THEN /\ warned' = warned \cup {Unexpected(frame.op1, frame.op2)}
              /\ UNCHANGED <<rx_q, tasks, rxState>>
         ELSE LET uid == CHOOSE u \in fut : TRUE IN
              IF IsDone(rx_q[uid]) THEN RxRaise("InvalidStateError")
              ELSE /\ rx_q' = [rx_q EXCEPT ![uid] = Settle(@, frame.op1, frame.op2)]
                   /\ UNCHANGED <<tasks, warned, rxState>>

\* A dispatch that indexes methods[method] and so raises on a method
\* without a handler.
OnRequest_KeyError(frame) ==
    IF ~Hashable(frame.op1) THEN RxRaise("TypeError")
    ELSE LET cb == MethodsGet(methods, frame.op1) IN
         IF cb = {} THEN RxRaise("KeyError")
         ELSE /\ tasks' = Append(tasks, NewTask(CHOOSE f \in cb : TRUE, frame.msg_id, frame.op2))
              /\ UNCHANGED <<rx_q, warned, rxState>>

\* The dispatch of a 4-sequence tagged req.
OnRequest(frame) ==
    IF ~Hashable(frame.op1) THEN RxRaise("TypeError")
    ELSE LET cb == MethodsGet(methods, frame.op1) IN
         /\ IF cb # {}
            THEN /\ tasks' = Append(tasks, NewTask(CHOOSE f \in cb : TRUE, frame.msg_id, frame.op2))
                 /\ UNCHANGED warned
            ELSE /\ warned' = warned \cup {NoListener(frame.op1)}
                 /\ UNCHANGED tasks
         /\ UNCHANGED <<rx_q, rxState>>

\* A receive loop that awaits the handler it starts: no frame is taken
\* while a handler is unfinished.
RxFrame_Awaits ==
    /\ Started
    /\ rxState = "running"
    /\ unpacker # <<>>
    /\ \A i \in DOMAIN tasks : tasks[i].st \in {"returned", "raised"}
    /\ unpacker' = Tail(unpacker)
    /\ LET frame == Head(unpacker) IN
       IF ~frame.seq THEN RxRaise("AssertionError")
       ELSE IF frame.arity = 3 THEN OnNotification(frame)
       ELSE IF frame.arity = 4
            THEN IF frame.ty = MsgType_resp THEN OnResponse(frame)
                 ELSE IF frame.ty = MsgType_req THEN OnRequest(frame)
                 ELSE RxRaise("AssertionError")
       ELSE UNCHANGED <<rx_q, tasks, warned, rxState>>
    /\ UNCHANGED <<hsVars, uids, callers, tx_q, enqueued, sendVars, peerVars,
                   methods, lastRegister, nNotify>>

\* The dispatch of a decoded frame.  A sequence of a length other than 3
\* and 4 falls through both branches.
RxDispatch(frame) ==
    IF ~frame.seq THEN RxRaise("AssertionError")
    ELSE IF frame.arity = 3 THEN OnNotification(frame)
    ELSE IF frame.arity = 4
         THEN IF frame.ty = MsgType_resp THEN OnResponse(frame)
              ELSE IF frame.ty = MsgType_req THEN OnRequest(frame)
              ELSE RxRaise("AssertionError")
    ELSE UNCHANGED <<rx_q, tasks, warned, rxState>>

\* One turn of rx()'s `async for frame in rx`: the unpacker decodes the next
\* object of the current read, ext_hook raising RuntimeError through recv()
\* into rx() on a code without a class, and the frame is dispatched.
RxFrame ==
    /\ Started
    /\ rxState = "running"
    /\ unpacker # <<>>
    /\ unpacker' = Tail(unpacker)
    /\ LET raw == Head(unpacker) IN
       IF \E code \in FrameExtCodes(raw) : ExtHook(mapping, code, "") = {}
       THEN RxRaise("RuntimeError")
       ELSE RxDispatch(FrameUnpack(raw, mapping))
    /\ UNCHANGED <<hsVars, uids, callers, tx_q, enqueued, sendVars, peerVars,
                   methods, lastRegister, nNotify>>

\* _connect: gather(rx(recv()), send()).  The task ends with the first
\* exception of either loop, and returns once both have returned; tx() never
\* ends, so send() never returns.
ConnState ==
    IF \/ opened \notin {"pending", "open"}
       \/ rxState \notin {"running", "returned"}
       \/ sendState \notin {"running", "returned"}
    THEN "raised"
    ELSE IF rxState = "returned" /\ sendState = "returned" THEN "returned"
    ELSE "pending"

\* ------------------------------------------------------------- handlers

HandlerResults == {VInt(1)}
HandlerExceptions == {"ValueError"}

\* The Exception e a handler raised.
VExc(e) == [k |-> "exc", v |-> e]

\* str((e, format_exc()))
ErrorStr(e) == VStr("(" \o e \o "(), 'Traceback (most recent call last): ...')")

\* What wrapped() puts on tx_q when f returned resp: nothing for a
\* notification (msg_id is None).
ReturnFrames(msg_id, resp) ==
    IF msg_id = VNil THEN <<>> ELSE <<RespFrame(msg_id, VNil, resp)>>

\* A wrapped() that lets the exception go: nothing is put on tx_q.
RaiseFrames_Silent(msg_id, e) == <<>>

\* What wrapped() puts on tx_q when f raised e.
RaiseFrames(msg_id, e) ==
    IF msg_id = VNil THEN <<>> ELSE <<RespFrame(msg_id, ErrorStr(e), VNil)>>

PutAll(frames) ==
    /\ tx_q' = tx_q \o frames
    /\ enqueued' = enqueued \o frames

\* wrapped(): `await f(*params)` returns resp.
HandlerReturn(i, resp) ==
    /\ i \in DOMAIN tasks
    /\ Idle
    /\ tasks[i].st = "running"
    /\ tasks' = [tasks EXCEPT ![i] = [@ EXCEPT !.st = "returned", !.out = resp]]
    /\ PutAll(ReturnFrames(tasks[i].msg_id, resp))
    /\ UNCHANGED <<hsVars, callVars, sendVars, peerVars, recvVars, methods,
                   lastRegister, warned, nNotify>>

\* A dispatch that awaits the handler inside the receive loop: the
\* exception of a notification's handler leaves rx().
HandlerRaise_Escapes(i, e) ==
    /\ i \in DOMAIN tasks
    /\ Idle
    /\ tasks[i].st = "running"
    /\ tasks' = [tasks EXCEPT ![i] = [@ EXCEPT !.st = "raised", !.out = VExc(e)]]
    /\ PutAll(RaiseFrames(tasks[i].msg_id, e))
    /\ rxState' = IF tasks[i].msg_id = VNil THEN e ELSE rxState
    /\ UNCHANGED <<hsVars, callVars, sendVars, peerVars, unpacker, methods,
                   lastRegister, warned, nNotify>>

\* wrapped(): `await f(*params)` raises the Exception e.
HandlerRaise(i, e) ==
    /\ i \in DOMAIN tasks
    /\ Idle
    /\ tasks[i].st = "running"
    /\ tasks' = [tasks EXCEPT ![i] = [@ EXCEPT !.st = "raised", !.out = VExc(e)]]
    /\ PutAll(RaiseFrames(tasks[i].msg_id, e))
    /\ UNCHANGED <<hsVars, callVars, sendVars, peerVars, recvVars, methods,
                   lastRegister, warned, nNotify>>

\* The handler f of task i calls rpc.request(method) and is suspended in
\* its `await fut`.
HandlerRequest(i, method) ==
    /\ i \in DOMAIN tasks
    /\ Idle
    /\ tasks[i].st = "running"
    /\ uids < MaxUid
    /\ RequestCall(method, NoParams)
    /\ tasks' = [tasks EXCEPT ![i] = [@ EXCEPT !.st = "awaiting", !.out = VInt(uids)]]
    /\ UNCHANGED <<hsVars, sendVars, peerVars, recvVars, methods, lastRegister,
                   warned, nNotify>>

\* The future the handler of task i awaits is done: the handler runs on,
\* or its task ends cancelled when CancelledError is thrown into it (the
\* `except Exception` of wrapped does not catch it, nothing is enqueued).
HandlerResume(i) ==
    /\ i \in DOMAIN tasks
    /\ Idle
    /\ tasks[i].st = "awaiting"
    /\ IsDone(rx_q[tasks[i].out.v])
    /\ callers' = [callers EXCEPT ![tasks[i].out.v] = Resumed(@)]
    /\ tasks' = [tasks EXCEPT ![i] =
                    [@ EXCEPT !.st = IF callers[tasks[i].out.v] = "cancelling"
                                     THEN "cancelled" ELSE "running",
                              !.out = VNil]]
    /\ UNCHANGED <<hsVars, uids, rx_q, tx_q, enqueued, sendVars, peerVars, recvVars,
                   methods, lastRegister, warned, nNotify>>

\* ------------------------------------------------------------- peer

\* The result of nvim_get_api_info: [channel_id, metadata].
ApiInfo(c) ==
    VList(<<VInt(c),
            VMap([types |-> VMap([Buffer |-> VMap([id |-> VInt(0)]),
                                  Window |-> VMap([id |-> VInt(1)]),
                                  Tabpage |-> VMap([id |-> VInt(2)])]),
                  error_types |-> VMap(<<>>)])>>)

\* The code the peer announces for a kind.
KindCode(kind) == CASE kind = "Buffer" -> 0 [] kind = "Window" -> 1 [] OTHER -> 2

\* A types map announcing an id for the kinds in withId and an entry without
\* id for those in noId.
TypesOf(withId, noId) ==
    VMap([kind \in withId \cup noId |->
            IF kind \in withId THEN VMap([id |-> VInt(KindCode(kind))])
            ELSE VMap(<<>>)])

\* Results of nvim_get_api_info that carry a channel id and a metadata map,
\* the map with or without its error_types entry.
ApiInfoWith(c, types, errorTypes) ==
    VList(<<VInt(c),
            VMap(IF errorTypes THEN [types |-> types, error_types |-> VMap(<<>>)]
                 ELSE [types |-> types])>>)

AllKinds == {"Buffer", "Window", "Tabpage"}

\* The Responses to the handshake's request the peer may write: well formed
\* with channel 3 and with channel 0, an error, a result that is no pair,
\* metadata without types, without error_types, and types that lack a kind
\* or the id of a kind.
ApiInfoMenu ==
    {RespFrame(VInt(0), VNil, ApiInfo(3)),
     RespFrame(VInt(0), VNil, ApiInfo(0)),
     RespFrame(VInt(0), VStr("boom"), VNil),
     RespFrame(VInt(0), VNil, VInt(5)),
     RespFrame(VInt(0), VNil, VList(<<VInt(3), VMap([error_types |-> VMap(<<>>)])>>)),
     RespFrame(VInt(0), VNil, ApiInfoWith(3, TypesOf(AllKinds, {}), FALSE)),
     RespFrame(VInt(0), VNil, ApiInfoWith(3, TypesOf({"Buffer"}, {}), FALSE)),
     RespFrame(VInt(0), VNil, ApiInfoWith(3, TypesOf({"Buffer"}, {}), TRUE)),
     RespFrame(VInt(0), VNil, ApiInfoWith(3, TypesOf({"Buffer", "Window"}, {}), TRUE)),
     RespFrame(VInt(0), VNil, ApiInfoWith(3, TypesOf({"Buffer", "Tabpage"}, {"Window"}), TRUE)),
     RespFrame(VInt(0), VNil, ApiInfoWith(3, TypesOf({"Window", "Tabpage"}, {}), TRUE))}

\* Error payloads of a Response: null, a falsy value that is not null, a
\* message.
ErrPayloads == {VNil, VInt(0), VStr("boom")}

\* The Responses to the handshake's request (uid 0).
ApiInfoFrames ==
    {RespFrame(VInt(0), VNil, ApiInfo(3)), RespFrame(VInt(0), VStr("boom"), VNil)}

\* Responses with the error payloads errs: to every uid the client can issue
\* and to one it never issues (MaxUid), each naming its id in its result.
Responses(errs) ==
    {RespFrame(VInt(i), e, VInt(10 + i)) : i \in 1..MaxUid, e \in errs}

\* Requests and Notifications the peer may write, a Request's id naming its
\* method.
CallId(m) == IF m = "ping" THEN VInt(7) ELSE VInt(8)
Calls ==
    {Frame4(MsgType_req, CallId(m), VStr(m), NoParams) : m \in MethodNames}
    \cup {Frame3(MsgType_notif, VStr(m), NoParams) : m \in MethodNames}

\* Payloads of ext values and the codes the peer may tag them with: the three
\* announced by ApiInfo and one that is not.
ExtPayloads == {"01"}
ExtCodeMenu == {0, 1, 2, 99}

\* Notifications and Requests carrying one ext value as their only argument.
ExtFrames ==
    {Frame3(MsgType_notif, VStr("ping"), VList(<<VExt(c, b)>>)) :
        c \in ExtCodeMenu, b \in ExtPayloads}
    \cup {Frame4(MsgType_req, CallId("ping"), VStr("ping"), VList(<<VExt(c, b)>>)) :
        c \in ExtCodeMenu, b \in ExtPayloads}

\* Top-level objects that have none of the three frame shapes: sequences of
\* 2 and of 5 elements, 3-sequences tagged req and resp, 4-sequences tagged
\* notif and 5, and an object that is no sequence.
Malformed ==
    {FrameN(2), FrameN(5), NonSeq,
     Frame3(MsgType_req, VStr("ping"), NoParams),
     Frame3(MsgType_resp, VStr("ping"), NoParams),
     Frame4(MsgType_notif, VInt(1), VStr("ping"), NoParams),
     Frame4(5, VInt(1), VStr("ping"), NoParams)}

\* The peer writes a frame; it arrives in the reader's buffer.
PeerSend(frame) ==
    /\ Started
    /\ ~peerClosed
    /\ nIn < MaxIn
    /\ nIn' = nIn + 1
    /\ stream' = Append(stream, frame)
    /\ UNCHANGED <<hsVars, callVars, tx_q, enqueued, sendVars, peerClosed,
                   recvVars, dispVars, nNotify>>

\* The peer closes the stream: having read all the client wrote, or with
\* some of it unread, which resets the connection.
PeerClose(reset) ==
    /\ Started
    /\ ~peerClosed
    /\ reset => wire # <<>>
    /\ peerClosed' = TRUE
    /\ transport' = IF reset THEN "reset" ELSE transport
    /\ UNCHANGED <<hsVars, callVars, tx_q, enqueued, opened, sendState, wire,
                   draining, stream, nIn, recvVars, dispVars, nNotify>>

\* ------------------------------------------------------------- specification

\* client() up to `yield rpc`.
Handshake ==
    \/ NotifyClientInfo
    \/ RequestApiInfo
    \/ HandshakeResume

\* The connection task on a socket that opens, with a peer that stays: the
\* send loop and the receive loop.
Connected ==
    \/ Connect
    \/ SendFrame
    \/ RecvRead
    \/ RxFrame

\* The connection task: the opening of the socket, which may fail, the send
\* loop and the receive loop, either of which may end on an exception.
Connection ==
    \/ Connected
    \/ \E e \in ConnectErrors : ConnectFail(e)
    \/ SendFail

\* The embedding program's handlers, its registrations and notifications.
Dispatch ==
    \/ \E m \in CallMethods : Notify(m)
    \/ \E m \in MethodNames, f \in Handlers : Register(m, f)
    \/ \E i \in 1..MaxIn, r \in HandlerResults : HandlerReturn(i, r)
    \/ \E i \in 1..MaxIn, e \in HandlerExceptions : HandlerRaise(i, e)

\* Concurrent callers of request() and a peer that answers them in any
\* order, with any error payload, also ids it was never asked.
NextCalls ==
    \/ Handshake
    \/ Connected
    \/ \E m \in CallMethods : Request(m)
    \/ \E uid \in 1..MaxUid : RequestResume(uid)
    \/ \E frame \in ApiInfoFrames \cup Responses(ErrPayloads) : PeerSend(frame)

SpecCalls == Init /\ [][NextCalls]_vars

\* Callers of request() that may be cancelled and a peer that may answer
\* twice, close the stream, and stop reading.
NextClose ==
    \/ Handshake
    \/ Connection
    \/ \E m \in CallMethods : Request(m)
    \/ \E uid \in 1..MaxUid : RequestResume(uid)
    \/ \E uid \in 0..MaxUid : Cancel(uid)
    \/ \E frame \in ApiInfoFrames \cup Responses({VNil}) : PeerSend(frame)
    \/ \E reset \in BOOLEAN : PeerClose(reset)

SpecClose == Init /\ [][NextClose]_vars

\* The event loop runs every coroutine that is ready: client(), the send
\* loop and the receive loop.  The embedding program and the peer are free
\* to do nothing more.
FairClose ==
    /\ SpecClose
    /\ WF_vars(Handshake)
    /\ WF_vars(Connect \/ \E e \in ConnectErrors : ConnectFail(e))
    /\ WF_vars(SendFrame)
    /\ WF_vars(SendFail)
    /\ WF_vars(RecvRead)
    /\ WF_vars(RxFrame)

\* Registered handlers and a peer that calls them.
NextDispatch ==
    \/ Handshake
    \/ Connected
    \/ Dispatch
    \/ \E frame \in ApiInfoFrames \cup Calls : PeerSend(frame)

SpecDispatch == Init /\ [][NextDispatch]_vars

\* A peer that answers the handshake's request in every way, well formed or
\* not, and a program that reads the channel id.
NextHandshake ==
    \/ Handshake
    \/ Connected
    \/ ReadChan
    \/ \E frame \in ApiInfoMenu : PeerSend(frame)

SpecHandshake == Init /\ [][NextHandshake]_vars

\* A peer whose frames carry ext values, and a handler that takes them.
NextDecode ==
    \/ Handshake
    \/ Connected
    \/ \E f \in Handlers : Register("ping", f)
    \/ \E frame \in ApiInfoFrames \cup ExtFrames : PeerSend(frame)

SpecDecode == Init /\ [][NextDecode]_vars

\* A peer that writes objects of no frame shape among its frames.
NextMalformed ==
    \/ Handshake
    \/ Connected
    \/ \E m \in CallMethods : Request(m)
    \/ \E uid \in 1..MaxUid : RequestResume(uid)
    \/ \E frame \in ApiInfoFrames \cup Malformed \cup Responses({VNil}) : PeerSend(frame)

SpecMalformed == Init /\ [][NextMalformed]_vars

\* Handlers that call request() themselves and a peer that calls them and
\* answers them.
NextNested ==
    \/ Handshake
    \/ Connected
    \/ \E f \in Handlers : Register("ping", f)
    \/ \E i \in 1..MaxIn, m \in CallMethods : HandlerRequest(i, m)
    \/ \E i \in 1..MaxIn : HandlerResume(i)
    \/ \E i \in 1..MaxIn, r \in HandlerResults : HandlerReturn(i, r)
    \/ \E frame \in ApiInfoFrames \cup Calls \cup Responses({VNil}) : PeerSend(frame)

SpecNested == Init /\ [][NextNested]_vars

\* ------------------------------------------------------------- properties

\* The receive loop dispatches `frame` in this step.
Dispatched(frame) ==
    /\ rxState = "running"
    /\ unpacker # <<>>
    /\ frame = Head(unpacker)
    /\ unpacker' = Tail(unpacker)

IsResponse(frame) == frame.seq /\ frame.arity = 4 /\ frame.ty = MsgType_resp
IsRequest(frame) == frame.seq /\ frame.arity = 4 /\ frame.ty = MsgType_req
IsNotification(frame) == frame.seq /\ frame.arity = 3 /\ frame.ty = MsgType_notif

\* The calls still suspended in request().
Pending == {u \in DOMAIN rx_q : rx_q[u].st = "PENDING"}

\* One step of C1: a future comes to hold a result or an NvimError only by
\* the dispatch of a Response of its uid, and holds that frame's payload; the
\* dispatch of a Response of a pending uid settles that uid's future.
C1_Step ==
    /\ \A uid \in DOMAIN rx_q :
          (/\ Outcome(rx_q'[uid]) # Outcome(rx_q[uid])
           /\ Outcome(rx_q'[uid]).kind \in {"result", "NvimError"})
          => /\ unpacker # <<>>
             /\ Dispatched(Head(unpacker))
             /\ IsResponse(Head(unpacker))
             /\ Head(unpacker).msg_id = VInt(uid)
             /\ Outcome(rx_q'[uid]) \in
                    {[kind |-> "result", val |-> Head(unpacker).op2],
                     [kind |-> "NvimError", val |-> Head(unpacker).op1]}
    /\ \A uid \in Pending :
          (/\ unpacker # <<>>
           /\ Dispatched(Head(unpacker))
           /\ IsResponse(Head(unpacker))
           /\ Head(unpacker).msg_id = VInt(uid))
          => Outcome(rx_q'[uid]).kind \in {"result", "NvimError"}

\* C1.  A caller of request() is resumed with a result or an error only in
\* the step that dispatches a Response carrying its own uid, and then with
\* that frame's result or error payload; and a Response carrying the uid of
\* a suspended caller resumes that caller.  The order in which the
\* Responses arrive is the peer's.
C1_IdCorrelation == [][C1_Step]_vars

\* Two calls are outstanding and the second is answered first.
C1_Witness ==
    /\ uids = 3
    /\ rx_q[1].st = "PENDING"
    /\ Outcome(rx_q[2]) = [kind |-> "result", val |-> VInt(12)]

\* One step of C4.
C4_Step ==
    (/\ unpacker # <<>>
     /\ Dispatched(Head(unpacker))
     /\ IsResponse(Head(unpacker))
     /\ Head(unpacker).msg_id \notin {VInt(u) : u \in DOMAIN rx_q})
    => /\ rxState' = "running"
       /\ rx_q' = rx_q
       /\ methods' = methods
       /\ tasks' = tasks

\* C4.  Dispatching a Response whose id is not a key of the pending-call
\* table leaves the receive loop running, every future as it was (none is
\* settled), and the pending-call table, the handler table and the tasks
\* unchanged.
C4_DanglingResponse == [][C4_Step]_vars

\* A Response to an id never issued was dropped with its warning while a
\* call is outstanding, and the loop went on to settle another call.
C4_Witness ==
    /\ Unexpected(VNil, VInt(13)) \in warned
    /\ rxState = "running"
    /\ uids = 3
    /\ rx_q[1].st = "FINISHED"
    /\ rx_q[2].st = "PENDING"

\* One step of C6.
C6_Step ==
    \A uid \in Pending :
       (/\ unpacker # <<>>
        /\ Dispatched(Head(unpacker))
        /\ IsResponse(Head(unpacker))
        /\ Head(unpacker).msg_id = VInt(uid)
        /\ Head(unpacker).op1 # VNil)
       => /\ Outcome(rx_q'[uid]) = [kind |-> "NvimError", val |-> Head(unpacker).op1]
          /\ \A other \in DOMAIN rx_q \ {uid} : rx_q'[other] = rx_q[other]

\* C6.  Dispatching a Response whose error payload is not null, for the
\* uid of a suspended caller, rejects that caller with NvimError(payload)
\* and leaves every other future as it was.
C6_NonNullErrorRejects == [][C6_Step]_vars

\* C2.  Once the receive loop has ended, by an empty read or by an
\* exception, every call is eventually settled: no caller stays suspended
\* in request().
C2_RejectedOnClose == (rxState # "running") ~> (Pending = {})

\* C3.  Once the peer has closed the stream and the receive loop has
\* returned, the connection task eventually completes.
C3_ConnectionCompletes ==
    (peerClosed /\ rxState = "returned") ~> (ConnState # "pending")

\* One step of C5.
C5_Step ==
    \A uid \in DOMAIN rx_q :
       (/\ unpacker # <<>>
        /\ Dispatched(Head(unpacker))
        /\ IsResponse(Head(unpacker))
        /\ Head(unpacker).msg_id = VInt(uid)
        /\ IsDone(rx_q[uid]))
       => /\ rxState' = "running"
          /\ rx_q' = rx_q

\* C5.  Dispatching a Response for a call that is already settled or was
\* cancelled leaves the receive loop running and the call as it was.
C5_LateResponseDiscarded == [][C5_Step]_vars


\* The Response frame owed for the finished task t of a Request.
C7_Expected(t) ==
    IF t.st = "returned"
    THEN Frame4(MsgType_resp, t.msg_id, VNil, t.out)
    ELSE Frame4(MsgType_resp, t.msg_id, ErrorStr(t.out.v), VNil)
\* The finished tasks of Requests; the Responses ever enqueued.
C7_Finished == {i \in DOMAIN tasks : tasks[i].msg_id # VNil /\ tasks[i].st # "running"}
C7_Responses == {j \in DOMAIN enqueued : IsResponse(enqueued[j])}

\* The Responses enqueued are those owed, each as often as it is owed.
C7_Inv ==
    /\ Cardinality(C7_Responses) = Cardinality(C7_Finished)
    /\ \A i \in C7_Finished :
          /\ C7_Expected(tasks[i]).op1.k \in {"nil", "str"}
          /\ Cardinality({j \in C7_Responses : enqueued[j] = C7_Expected(tasks[i])})
               = Cardinality({k \in C7_Finished : C7_Expected(tasks[k]) = C7_Expected(tasks[i])})

\* The dispatch of a Request whose method has a handler starts its task.
C7_Step ==
    (/\ unpacker # <<>>
     /\ Dispatched(Head(unpacker))
     /\ IsRequest(Head(unpacker))
     /\ Head(unpacker).op1.k = "str"
     /\ Head(unpacker).op1.v \in DOMAIN methods)
    => tasks' = Append(tasks, [f |-> methods[Head(unpacker).op1.v],
                               msg_id |-> Head(unpacker).msg_id,
                               params |-> Head(unpacker).op2,
                               st |-> "running", out |-> VNil])

\* C7.  A Request whose method has a handler starts one task of that
\* handler with the frame's id and params; and the Response frames ever
\* enqueued are, one for one, those of the finished tasks of Requests:
\* [1, id, null, return value] of a handler that returned,
\* [1, id, error string, null] of a handler that raised.
C7_HandlerResponse == []C7_Inv /\ [][C7_Step]_vars

\* One handler of a Request returned, another raised, and both Responses
\* have been written.
C7_Witness ==
    \E i, j \in C7_Finished :
       /\ tasks[i].st = "returned"
       /\ tasks[j].st = "raised"
       /\ \E a, b \in DOMAIN wire :
             wire[a] = C7_Expected(tasks[i]) /\ wire[b] = C7_Expected(tasks[j])

\* One step of C8.
C8_Step ==
    /\ \A m \in MethodNames, f \in Handlers :
          (Register(m, f) /\ m \in DOMAIN methods)
          => (lastRegister' = "AssertionError" /\ methods' = methods)
    /\ \A m \in DOMAIN methods : m \in DOMAIN methods' /\ methods'[m] = methods[m]
    /\ (Len(tasks') > Len(tasks))
       => /\ unpacker # <<>>
          /\ Dispatched(Head(unpacker))
          /\ LET frame == Head(unpacker)
                 method == IF frame.arity = 3 THEN frame.method ELSE frame.op1
             IN tasks'[Len(tasks')].f = methods[method.v]

\* C8.  register() for a method that has a handler raises and leaves the
\* table as it was; no entry of the table ever changes; and the task a
\* frame starts runs the handler the table holds for its method.
C8_DuplicateRegistration == [][C8_Step]_vars

\* A second registration of "ping" failed and a frame for "ping" then
\* started the first handler.
C8_Witness ==
    /\ lastRegister = "AssertionError"
    /\ "ping" \in DOMAIN methods
    /\ \E i \in DOMAIN tasks : tasks[i].f = methods["ping"] /\ tasks[i].msg_id = CallId("ping")

\* s is a prefix of t.
C9_IsPrefix(s, t) == Len(s) <= Len(t) /\ s = SubSeq(t, 1, Len(s))

\* C9.  The frames written are a prefix of the frames enqueued, in their
\* order, the rest being the queue's content; what is written stays
\* written.
C9_FifoWrite ==
    /\ [](enqueued = wire \o tx_q)
    /\ [][C9_IsPrefix(wire, wire') /\ C9_IsPrefix(enqueued, enqueued')]_vars

\* A notification, a request and a handler's Response have been enqueued
\* after the handshake's frames, and all are written.
C9_Witness ==
    /\ tx_q = <<>>
    /\ Len(wire) >= 4
    /\ \E i, j \in DOMAIN wire :
          /\ i < j
          /\ wire[i] = NotifFrame("nvim_command", NoParams)
          /\ IsResponse(wire[j])

\* C10.  No Notification or Request was discarded for lack of a listener
\* whose method has a handler now: what arrived before the registration
\* was kept for it.
C10_NotDropped == \A m \in DOMAIN methods : NoListener(VStr(m)) \notin warned

\* C11.  A handshake that failed leaves the client short of Ready for good,
\* its channel id unset, the decoding table empty and no kind with a code
\* assigned.
C11_NoPartialHandshake ==
    hs = "Failed" =>
        /\ chan = VNil
        /\ mapping = <<>>
        /\ \A kind \in DOMAIN codes : codes[kind] = VNil

\* The channel id the nvim_get_api_info response carried.
C12_Received == Outcome(rx_q[0]).val.v[1]

\* One step of C12: a read of the channel id ends in an error while the
\* handshake has not completed and gives the id received once it has.
C12_Step ==
    chanRead' # chanRead =>
        IF hs = "Ready"
        THEN chanRead' = [kind |-> "value", val |-> C12_Received]
        ELSE chanRead'.kind = "AssertionError"

\* C12.  Reading the channel id before the handshake has completed is an
\* error; once it has completed the read gives the id the nvim_get_api_info
\* response carried, whatever integer it is, and the id never changes.
C12_ChannelRead ==
    [][C12_Step /\ (hs = "Ready" => chan' = chan /\ hs' = hs)]_vars

\* The handshake's request was answered with [3, metadata], the metadata's
\* types being {"Buffer": {"id": 0}}, and client() has resumed from it.
C13_Scenario ==
    /\ hs \in {"Ready", "Failed"}
    /\ \E errorTypes \in BOOLEAN :
          Outcome(rx_q[0]) =
              [kind |-> "result",
               val |-> ApiInfoWith(3, TypesOf({"Buffer"}, {}), errorTypes)]

\* C13.  A handshake answered with [3, metadata] whose types are
\* {"Buffer": {"id": 0}} completes: the client is Ready, its channel is 3
\* and the decoding table maps code 0 to the Buffer kind.
C13_BufferOnlyHandshake ==
    C13_Scenario =>
        /\ hs = "Ready"
        /\ chan = VInt(3)
        /\ 0 \in DOMAIN mapping
        /\ mapping[0] = "Buffer"

\* The ext values a frame of ExtFrames carries as arguments.
C14_Args(frame) == IF frame.arity = 3 THEN frame.params.v ELSE frame.op2.v

\* The arguments the latest task was started with are the frame's, each ext
\* value as an instance of a kind announced under its code, payload kept.
C14_Decoded(frame, started) ==
    /\ started.params.k = "list"
    /\ DOMAIN started.params.v = DOMAIN C14_Args(frame)
    /\ \A i \in DOMAIN C14_Args(frame) :
          LET obj == started.params.v[i] IN
          /\ obj.k = "Ext"
          /\ codes[obj.cls] = VInt(C14_Args(frame)[i].code)
          /\ obj.data = C14_Args(frame)[i].data

\* One step of C14, for the frames of ExtFrames.
C14_Step ==
    (/\ hs = "Ready"
     /\ unpacker # <<>>
     /\ Dispatched(Head(unpacker))
     /\ Head(unpacker) \in ExtFrames)
    => LET frame == Head(unpacker)
           known == {codes[kind].v : kind \in DOMAIN codes}
       IN IF \A i \in DOMAIN C14_Args(frame) : C14_Args(frame)[i].code \in known
          THEN /\ rxState' = "running"
               /\ "ping" \in DOMAIN methods =>
                     /\ Len(tasks') = Len(tasks) + 1
                     /\ C14_Decoded(frame, tasks'[Len(tasks')])
          ELSE /\ rxState' = "RuntimeError"
               /\ tasks' = tasks
               /\ rx_q' = rx_q

\* C14.  In the Ready state a frame's ext value (code, payload) whose code
\* was announced in the handshake reaches the handler as an instance of a
\* kind announced under that code, with the same payload; an ext value of
\* any other code ends the receive loop with RuntimeError and starts no
\* handler.
C14_ExtDecoding == [][C14_Step]_vars

\* A handler was started with a decoded ext value, and the receive loop has
\* ended over an unknown code.
C14_Witness ==
    /\ hs = "Ready"
    /\ rxState = "RuntimeError"
    /\ \E i \in DOMAIN tasks :
          /\ tasks[i].params.k = "list"
          /\ tasks[i].params.v # <<>>
          /\ tasks[i].params.v[1].k = "Ext"
          /\ tasks[i].params.v[1].cls = "Window"

\* C15.  The pending-call table holds only calls that are still outstanding:
\* the id of a settled call is not a key of it.
C15_TableHoldsOutstanding == \A uid \in DOMAIN rx_q : ~IsDone(rx_q[uid])

\* The ids of the Requests the client has enqueued, in the order of the
\* calls.
C16_Ids ==
    LET reqs == SelectSeq(enqueued, IsRequest) IN
    [i \in DOMAIN reqs |-> reqs[i].msg_id.v]

\* C16.  The ids of the requests made through the client increase strictly
\* in the order of the calls, so that no two calls share an id and no id is
\* used again, settled or not; and the counter never decreases.
C16_IdsIncrease ==
    /\ [](\A i, j \in DOMAIN C16_Ids : i < j => C16_Ids[i] < C16_Ids[j])
    /\ [](\A i \in DOMAIN C16_Ids : C16_Ids[i] < uids)
    /\ [][uids' >= uids]_vars

\* A call was made after an earlier one had been settled.
C16_Witness ==
    /\ 2 \in DOMAIN rx_q
    /\ IsDone(rx_q[1])
    /\ ~IsDone(rx_q[2])
    /\ Len(C16_Ids) = 3
    /\ \A i \in DOMAIN wire : ~(IsRequest(wire[i]) /\ wire[i].msg_id = VInt(2))

\* A Notification, a Request or a Response by its shape: the length and the
\* tag.
C17_WellShaped(frame) ==
    /\ frame.seq
    /\ \/ frame.arity = 3 /\ frame.ty = MsgType_notif
       \/ frame.arity = 4 /\ frame.ty \in {MsgType_req, MsgType_resp}

\* C17.  The dispatch of a frame that has none of the three shapes ends the
\* receive loop with an error: none is skipped with the loop going on.
C17_MalformedIsFatal ==
    [][(unpacker # <<>> /\ Dispatched(Head(unpacker))
            /\ ~C17_WellShaped(Head(unpacker)))
       => rxState' \notin {"running", "returned"}]_vars

\* One step of C18: a handler's exception leaves both loops, the frames
\* read and the frames to read as they were.
C18_Raises ==
    \E i \in DOMAIN tasks : tasks[i].st = "running" /\ tasks'[i].st = "raised"

C18_Step ==
    C18_Raises => /\ rxState' = rxState
       /\ sendState' = sendState
       /\ unpacker' = unpacker
       /\ stream' = stream

\* C18.  The step in which a handler raises, for a Request or for a
\* Notification, touches neither loop nor the connection task; and whatever
\* the handlers have done, a running receive loop dispatches the frame it
\* has read.
C18_HandlerErrorContained ==
    /\ []((Started /\ rxState = "running" /\ unpacker # <<>>) => ENABLED RxFrame)
    /\ [][C18_Step /\ (C18_Raises => ConnState' = ConnState)]_vars

\* The handler of a Notification has raised, nothing answers for it, and
\* the next frame has arrived for the running loop.
C18_Witness ==
    /\ \E i \in DOMAIN tasks : tasks[i].st = "raised" /\ tasks[i].msg_id = VNil
    /\ rxState = "running"
    /\ stream # <<>>

\* The method a Notification or a Request names.
C20_Method(frame) == IF frame.arity = 3 THEN frame.method ELSE frame.op1

\* One step of C20.
C20_Step ==
    (/\ unpacker # <<>>
     /\ Dispatched(Head(unpacker))
     /\ IsNotification(Head(unpacker)) \/ IsRequest(Head(unpacker))
     /\ C20_Method(Head(unpacker)).k = "str"
     /\ C20_Method(Head(unpacker)).v \notin DOMAIN methods)
    => /\ tasks' = tasks
       /\ tx_q' = tx_q
       /\ enqueued' = enqueued
       /\ rx_q' = rx_q
       /\ methods' = methods
       /\ rxState' = "running"

\* C20.  The dispatch of a Notification or a Request whose method has no
\* handler starts no handler, enqueues no frame, leaves the pending-call
\* table and the handler table as they were and the receive loop running.
C20_MissingHandler == [][C20_Step]_vars

\* Frames of two methods without handler were dispatched: nothing was
\* started for them and nothing enqueued since the handshake.
C20_Witness ==
    /\ hs = "Ready"
    /\ NoListener(VStr("ping")) \in warned
    /\ NoListener(VStr("pong")) \in warned
    /\ tasks = <<>>
    /\ Len(enqueued) = 2
    /\ rxState = "running"

\* The frames that have arrived and are not dispatched, in the order of
\* their arrival; the handler invocations started, in the order of their
\* start.
C19_Arrived == unpacker \o stream
C19_Started(ts) ==
    [i \in DOMAIN ts |-> [f |-> ts[i].f, msg_id |-> ts[i].msg_id, params |-> ts[i].params]]

\* The invocation owed to a frame: one for a Notification or a Request whose
\* method has a handler, none otherwise.
C19_Owed(frame) ==
    IF IsNotification(frame) /\ MethodsGet(methods, frame.method) # {}
    THEN <<[f |-> methods[frame.method.v], msg_id |-> VNil, params |-> frame.params]>>
    ELSE IF IsRequest(frame) /\ MethodsGet(methods, frame.op1) # {}
    THEN <<[f |-> methods[frame.op1.v], msg_id |-> frame.msg_id, params |-> frame.op2]>>
    ELSE <<>>

\* One step of C19: a frame joins the arrived ones at the end, or the oldest
\* of them is dispatched and its invocation, if one is owed, is started
\* after all those started before; nothing else starts an invocation.  The
\* Response a handler awaits is taken while that handler is unfinished.
C19_Step ==
    /\ \/ /\ C19_Arrived' = C19_Arrived
          /\ C19_Started(tasks') = C19_Started(tasks)
       \/ /\ Len(stream') = Len(stream) + 1
          /\ C19_Arrived' = Append(C19_Arrived, stream'[Len(stream')])
          /\ C19_Started(tasks') = C19_Started(tasks)
       \/ /\ C19_Arrived # <<>>
          /\ C19_Arrived' = Tail(C19_Arrived)
          /\ C19_Started(tasks') = C19_Started(tasks) \o C19_Owed(Head(C19_Arrived))
    /\ \A i \in DOMAIN tasks :
          (/\ tasks[i].st = "awaiting"
           /\ unpacker # <<>>
           /\ Dispatched(Head(unpacker))
           /\ IsResponse(Head(unpacker))
           /\ Head(unpacker).msg_id = tasks[i].out
           /\ ~IsDone(rx_q[tasks[i].out.v]))
          => /\ IsDone(rx_q'[tasks[i].out.v])
             /\ tasks'[i].st = "awaiting"

\* Some handler invocation has not finished.
C19_Unfinished == \E i \in DOMAIN tasks : tasks[i].st \in {"running", "awaiting"}

\* C19.  Handler invocations are started in the order in which their frames
\* arrived, and the receive loop takes the next frame whether or not the
\* handlers started before have finished, the Response one of them awaits
\* included.
C19_NonBlockingDispatch ==
    /\ []((C19_Unfinished /\ rxState = "running" /\ unpacker # <<>>) => ENABLED RxFrame)
    /\ []((C19_Unfinished /\ rxState = "running" /\ unpacker = <<>> /\ stream # <<>>)
            => ENABLED RecvRead)
    /\ [][C19_Step]_vars

\* While the first handler invocation is suspended in request(), the
\* Response it awaits has been dispatched.
C19_Witness ==
    /\ tasks # <<>>
    /\ tasks[1].st = "awaiting"
    /\ IsDone(rx_q[tasks[1].out.v])
    /\ rxState = "running"

\* The two frames of the handshake.
C21_ClientInfo == NotifFrame("nvim_set_client_info", ClientInfoParams)
C21_ApiInfoRequest == ReqFrame(0, "nvim_get_api_info", VList(<<>>))

\* The handshake's frames are the first enqueued, the Notification before
\* the Request, and what is written begins with them in that order.
C21_FramesInOrder ==
    /\ hs = "Connecting" => enqueued = <<>>
    /\ hs = "HandshakeClientInfo" => enqueued = <<C21_ClientInfo>>
    /\ hs \notin {"Connecting", "HandshakeClientInfo"} =>
          /\ Len(enqueued) >= 2
          /\ enqueued[1] = C21_ClientInfo
          /\ enqueued[2] = C21_ApiInfoRequest
    /\ Len(wire) <= Len(enqueued)
    /\ \A i \in DOMAIN wire : i <= 2 => wire[i] = enqueued[i]

\* A Ready client has the api-info Response, its channel id and the codes
\* of the three kinds in the decoding table.
C21_ReadyIsComplete ==
    hs = "Ready" =>
        /\ Outcome(rx_q[0]).kind = "result"
        /\ chan = Outcome(rx_q[0]).val.v[1]
        /\ \A kind \in DOMAIN codes :
              /\ codes[kind].k = "int"
              /\ codes[kind].v \in DOMAIN mapping
        /\ \A code \in DOMAIN mapping : codes[mapping[code]] = VInt(code)

\* The steps of the handshake, one after the other; Ready and Failed are
\* final.
C21_StepInOrder ==
    \/ hs' = hs
    \/ hs = "Connecting" /\ hs' = "HandshakeClientInfo"
    \/ hs = "HandshakeClientInfo" /\ hs' = "HandshakeCapabilities"
    \/ hs = "HandshakeCapabilities" /\ hs' \in {"Ready", "Failed"}

\* C21.  The handshake goes through its steps in the fixed order: the
\* nvim_set_client_info Notification is enqueued and written before the
\* nvim_get_api_info Request, and the client becomes Ready only once the
\* Response to that Request is in, the channel id is set and the codes of
\* the kinds are in the decoding table.
C21_HandshakeOrder ==
    /\ []C21_FramesInOrder
    /\ []C21_ReadyIsComplete
    /\ [][C21_StepInOrder]_vars

\* The client is Ready, both handshake frames written.
C21_Witness ==
    /\ hs = "Ready"
    /\ Len(wire) >= 2
    /\ chan = VInt(3)
    /\ DOMAIN mapping = {0, 1, 2}

\* The ext codes the nvim_get_api_info Response announced, once it is in.
C22_Announced ==
    IF 0 \in DOMAIN rx_q /\ Outcome(rx_q[0]).kind = "result"
          /\ ApiInfoOk(Outcome(rx_q[0]).val)
    THEN LET types == Outcome(rx_q[0]).val.v[2].v["types"] IN
         {types.v[kind].v["id"].v : kind \in {k \in AllKinds : TypeCodeOk(types, k)}}
    ELSE {}

\* C22.  A frame dispatched after the nvim_get_api_info Response, carrying
\* ext values of codes that Response announced, is decoded and leaves the
\* receive loop running, whether or not client() has resumed in between.
C22_DecodedAfterApiInfo ==
    [][(/\ unpacker # <<>>
        /\ Dispatched(Head(unpacker))
        /\ Head(unpacker) \in ExtFrames
        /\ FrameExtCodes(Head(unpacker)) \subseteq C22_Announced)
       => rxState' = "running"]_vars

====
